---- MODULE Spec2Model ----
(***************************************************************************)
(* A model of hydrate-sql-server: the CSV column mapper and loader         *)
(* (db/load_csv.py), the schema initializer (db/init_schema.py) and the    *)
(* connection manager (src/database.py).  The SQL Server instance is the   *)
(* environment: its committed content is the variable db, and every call   *)
(* into the driver (connect, execute, commit) may raise.                   *)
(***************************************************************************)
EXTENDS Integers, Sequences, FiniteSets, TLC

VARIABLES
    db,             \* committed content of the database
    open,           \* connections opened and not closed
    mode,           \* "idle", "init" (init_schema.main), "load" (load_all_csv_files), "exit"
    pc,             \* position inside the running entry point
    csv_files,      \* load_all_csv_files: the paths of the data directory's files
    idx,            \* load_all_csv_files: number of files the loop has taken
    success_count,  \* load_all_csv_files: success_count
    ret,            \* return value of the last entry point ("none" while running)
    runs,           \* entry points started so far
    csv,            \* content of the file read last
    df,             \* what prepare_products_data gave for it
    results,        \* history: per file, what load_csv_to_products returned, and the
                    \* mapped rows of a file it reported loaded
    fault,          \* history: the driver call that was made to fail in the last step
    pre,            \* history: db and open when the last step began
    log,            \* history: driver calls of the last step (of the run, for init)
    errors,         \* history: what the connection manager logged as errors, as log
    start,          \* history: db when the running entry point began
    last            \* history: the step executed last

vars == <<db, open, mode, pc, csv_files, idx, success_count, ret, runs, csv, df,
          results, fault, pre, log, errors, start, last>>

(***************************************************************************)
(* Bounds of the model.                                                    *)
(***************************************************************************)
MaxRows == 2        \* rows of an enumerated CSV table
MaxFiles == 3       \* files of a data directory
MaxRuns == 2        \* entry points run one after another

Range(s) == {s[i] : i \in 1..Len(s)}

(***************************************************************************)
(* Values of a pandas cell.  A float is kept in hundredths.                 *)
(***************************************************************************)
NaN == [k |-> "nan", s |-> "", n |-> 0]
Inf == [k |-> "inf", s |-> "", n |-> 0]
Timestamp == [k |-> "ts", s |-> "now", n |-> 0]
Str(x) == [k |-> "str", s |-> x, n |-> 0]
Float(t) == [k |-> "float", s |-> "", n |-> t]
Int64(i) == [k |-> "int", s |-> "", n |-> i]

IsNa(v) == v.k = "nan"

(***************************************************************************)
(* pd.read_csv: the header names the columns; an empty field, a field the  *)
(* row does not have, and the default NA spellings all become NaN.         *)
(***************************************************************************)
NaValues == {"", "NA", "NaN", "null"}

\* a read that keeps empty fields as empty strings
ReadCellKeepEmpty(row, j) == IF j > Len(row) THEN NaN ELSE Str(row[j])

ReadCell(row, j) ==
    IF j > Len(row) THEN NaN
    ELSE IF row[j] \in NaValues THEN NaN
    ELSE Str(row[j])

ColumnPos(header, c) == CHOOSE j \in 1..Len(header) : header[j] = c

\* A column as a sequence of its values (a pandas Series over a RangeIndex).
Series(n, f) == SubSeq([i \in 1..n |-> f[i]], 1, n)

RECURSIVE ReadColumns(_, _)
\* the columns from the j-th on, by name
ReadColumns(raw, j) ==
    IF j > Len(raw.header) THEN [c \in {} |-> <<>>]
    ELSE (raw.header[j] :> Series(Len(raw.rows),
                                  [i \in 1..Len(raw.rows) |-> ReadCell(raw.rows[i], j)]))
         @@ ReadColumns(raw, j + 1)

ReadCsv(raw) ==
    [columns |-> raw.header, nrows |-> Len(raw.rows), col |-> ReadColumns(raw, 1)]

(***************************************************************************)
(* DataFrames: the columns in order, the number of rows, the columns'      *)
(* values.                                                                 *)
(***************************************************************************)
EmptyDF == [columns |-> <<>>, nrows |-> 0, col |-> [c \in {} |-> <<>>]]

\* an emptiness test that never holds
NeverEmpty(frame) == FALSE

IsEmpty(frame) == frame.nrows = 0 \/ frame.columns = <<>>

AddColumn(columns, c) == IF c \in Range(columns) THEN columns ELSE Append(columns, c)

\* mapped_df[c] = scalar: broadcast over the frame's index.
SetScalar(m, c, v) ==
    [columns |-> AddColumn(m.columns, c),
     nrows   |-> m.nrows,
     col     |-> (c :> Series(m.nrows, [i \in 1..m.nrows |-> v])) @@ m.col]

\* mapped_df[c] = series: a frame with an empty index takes the series'
\* index, its existing columns filled with NaN.
SetSeries(m, c, ser) ==
    IF m.nrows = 0 /\ Len(ser) > 0
    THEN [columns |-> AddColumn(m.columns, c),
          nrows   |-> Len(ser),
          col     |-> (c :> ser) @@
                      [d \in DOMAIN m.col |->
                          Series(Len(ser), [i \in 1..Len(ser) |-> NaN])]]
    ELSE [columns |-> AddColumn(m.columns, c),
          nrows   |-> m.nrows,
          col     |-> (c :> ser) @@ m.col]

(***************************************************************************)
(* prepare_products_data.                                                  *)
(***************************************************************************)
TargetCols == <<"name", "description", "price", "category", "stock_quantity">>

column_mapping ==
    [name           |-> <<"name", "product_name", "title", "product">>,
     description    |-> <<"description", "desc", "product_description">>,
     price          |-> <<"price", "cost", "amount", "value">>,
     category       |-> <<"category", "cat", "type", "product_category">>,
     stock_quantity |-> <<"stock_quantity", "stock", "quantity", "qty", "inventory">>]

NoMatch == "<no matching column>"

RECURSIVE LastMatch(_, _)
\* a scan without the break: a later synonym overrides an earlier one
LastMatch(possible_names, columns) ==
    IF possible_names = <<>> THEN NoMatch
    ELSE LET later == LastMatch(Tail(possible_names), columns)
         IN  IF later # NoMatch THEN later
             ELSE IF Head(possible_names) \in Range(columns) THEN Head(possible_names)
             ELSE NoMatch

\* for col_name in possible_names: if col_name in df.columns: ... break
RECURSIVE FirstMatch(_, _)
FirstMatch(possible_names, columns) ==
    IF possible_names = <<>> THEN NoMatch
    ELSE IF Head(possible_names) \in Range(columns) THEN Head(possible_names)
    ELSE FirstMatch(Tail(possible_names), columns)

DefaultFor(target_col) ==
    IF target_col = "price" THEN Float(0)
    ELSE IF target_col = "stock_quantity" THEN Int64(0)
    ELSE Str("")

MapColumn(frame, mapped, target_col) ==
    LET col_name == FirstMatch(column_mapping[target_col], frame.columns)
    IN  IF col_name # NoMatch
        THEN SetSeries(mapped, target_col, frame.col[col_name])
        ELSE SetScalar(mapped, target_col, DefaultFor(target_col))

RECURSIVE MapColumns(_, _, _)
MapColumns(frame, mapped, targets) ==
    IF targets = <<>> THEN mapped
    ELSE MapColumns(frame, MapColumn(frame, mapped, Head(targets)), Tail(targets))

\* pd.to_numeric(errors='coerce') on the literals the model's files use.
NumericLiterals ==
    ("5" :> Int64(5)) @@ ("3" :> Int64(3)) @@ ("12.7" :> Float(1270)) @@
    ("12.50" :> Float(1250)) @@ ("-2.5" :> Float(-250)) @@ ("inf" :> Inf)

ToNumeric(v) ==
    IF v.k = "str"
    THEN IF v.s \in DOMAIN NumericLiterals THEN NumericLiterals[v.s] ELSE NaN
    ELSE v

FillNa(v, d) == IF IsNa(v) THEN d ELSE v

\* astype(int) truncates toward zero; it raises on a non-finite value.
CanCastInt(v) == v.k \in {"int", "float"}

Truncate(t) == IF t >= 0 THEN t \div 100 ELSE -((-t) \div 100)

AsTypeInt(v) == IF v.k = "float" THEN Int64(Truncate(v.n)) ELSE v

CleanPrice(v) == FillNa(ToNumeric(v), Float(0))

CleanStock(v) == AsTypeInt(FillNa(ToNumeric(v), Int64(0)))

StockRaises(ser) == \E i \in 1..Len(ser) : ~CanCastInt(FillNa(ToNumeric(ser[i]), Int64(0)))

CleanPriceColumn(m) ==
    [m EXCEPT !.col["price"] = Series(Len(@), [i \in 1..Len(@) |-> CleanPrice(@[i])])]

CleanStockColumn(m) ==
    [m EXCEPT !.col["stock_quantity"] =
                Series(Len(@), [i \in 1..Len(@) |-> CleanStock(@[i])])]

RECURSIVE KeepRows(_, _)
\* the indices of the rows whose name is not NaN, in order
KeepRows(ser, i) ==
    IF i > Len(ser) THEN <<>>
    ELSE IF IsNa(ser[i]) THEN KeepRows(ser, i + 1)
    ELSE <<i>> \o KeepRows(ser, i + 1)

\* mapped_df.dropna(subset=['name'])
DropNaName(m) ==
    LET keep == KeepRows(m.col["name"], 1)
    IN  [columns |-> m.columns,
         nrows   |-> Len(keep),
         col     |-> [c \in DOMAIN m.col |->
                        Series(Len(keep), [j \in 1..Len(keep) |-> m.col[c][keep[j]]])]]

AllNa(ser) == \A i \in 1..Len(ser) : IsNa(ser[i])

Raised == [status |-> "raised", frame |-> EmptyDF]
Returned(frame) == [status |-> "ok", frame |-> frame]
NotMapped == [status |-> "none", frame |-> EmptyDF]

prepare_products_data(frame) ==
    LET mapped == MapColumns(frame, EmptyDF, TargetCols)
        priced == CleanPriceColumn(mapped)
    IN  IF StockRaises(priced.col["stock_quantity"]) THEN Raised
        ELSE LET cleaned == CleanStockColumn(priced)
             IN  IF "name" \notin Range(cleaned.columns) \/ AllNa(cleaned.col["name"])
                 THEN Returned(EmptyDF)
                 ELSE Returned(SetScalar(SetScalar(DropNaName(cleaned),
                                    "created_at", Timestamp), "updated_at", Timestamp))

(***************************************************************************)
(* The database.  SQL Server is the environment: a products table and its  *)
(* index exist or not (no statement of the program drops them), and the    *)
(* table holds rows.  A statement on a connection acts on that             *)
(* connection's transaction; commit publishes it.                          *)
(***************************************************************************)
EmptyDb == [tables |-> 0, indexes |-> 0, rows |-> <<>>]

Row(name, description, price, category, stock) ==
    [name |-> name, description |-> description, price |-> price,
     category |-> category, stock_quantity |-> stock]

NoRow == Row(NaN, NaN, NaN, NaN, NaN)

SampleRows ==
    << Row(Str("Sample Product 1"), Str("This is a sample product for testing"),
           Float(2999), Str("Electronics"), Int64(100)),
       Row(Str("Sample Product 2"), Str("Another sample product"),
           Float(4999), Str("Electronics"), Int64(50)),
       Row(Str("Sample Product 3"), Str("A third sample product"),
           Float(1999), Str("Books"), Int64(200)),
       Row(Str("Sample Product 4"), Str("Yet another sample"),
           Float(9999), Str("Home & Garden"), Int64(25)),
       Row(Str("Sample Product 5"), Str("The last sample product"),
           Float(1599), Str("Books"), Int64(150)) >>

SampleNames == {SampleRows[i].name : i \in 1..Len(SampleRows)}

CountNamed(rows, name) == Cardinality({i \in 1..Len(rows) : rows[i].name = name})

Stmt(kind, row) == [kind |-> kind, row |-> row]

IsSelect(stmt) == stmt.kind \in {"verify", "version"}

Done(d) == [ok |-> TRUE, db |-> d]
SqlError(d) == [ok |-> FALSE, db |-> d]

\* CREATE TABLE products without the guard: the server rejects a second table
create_table_unguarded(d) ==
    IF d.tables = 0 THEN Done([d EXCEPT !.tables = 1]) ELSE SqlError(d)

\* IF NOT EXISTS (SELECT * FROM sysobjects WHERE name='products' ...) CREATE TABLE products
create_table_sql(d) ==
    IF d.tables = 0 THEN Done([d EXCEPT !.tables = 1]) ELSE Done(d)

\* IF NOT EXISTS (SELECT * FROM sys.indexes WHERE name = 'IX_products_category') CREATE INDEX
create_index_sql(d) ==
    IF d.indexes # 0 THEN Done(d)
    ELSE IF d.tables = 0 THEN SqlError(d)
    ELSE Done([d EXCEPT !.indexes = 1])

\* IF NOT EXISTS (SELECT * FROM products WHERE name = 'Sample Product 1') INSERT ... five rows
sample_data_sql(d) ==
    IF d.tables = 0 THEN SqlError(d)
    ELSE IF CountNamed(d.rows, Str("Sample Product 1")) # 0 THEN Done(d)
    ELSE Done([d EXCEPT !.rows = @ \o SampleRows])

\* INSERT INTO products (...) VALUES (?, ...): name is NOT NULL
insert_sql(d, row) ==
    IF d.tables = 0 \/ IsNa(row.name) THEN SqlError(d)
    ELSE Done([d EXCEPT !.rows = Append(@, row)])

\* SELECT COUNT(*), AVG(price), SUM(stock_quantity) FROM products
verify_sql(d) == IF d.tables = 0 THEN SqlError(d) ELSE Done(d)

RunSql(d, stmt) ==
    CASE stmt.kind = "create_table" -> create_table_sql(d)
      [] stmt.kind = "create_index" -> create_index_sql(d)
      [] stmt.kind = "sample_data"  -> sample_data_sql(d)
      [] stmt.kind = "insert"       -> insert_sql(d, stmt.row)
      [] stmt.kind = "verify"       -> verify_sql(d)
      [] OTHER                      -> Done(d)

(***************************************************************************)
(* The driver.  A context carries the committed database, the transaction  *)
(* of the connection in use, the count of open connections, the calls made *)
(* so far, the call that is to raise pyodbc.Error (0: none) and what the   *)
(* connection manager has logged with logger.error.                        *)
(***************************************************************************)
Ctx(d, o, at) ==
    [db |-> d, tx |-> d, open |-> o, log |-> <<>>, calls |-> 0, failAt |-> at,
     exc |-> FALSE, errors |-> <<>>]

Event(op, for, ok) == [op |-> op, for |-> for, ok |-> ok]

Called(c, op, for, ok) ==
    [c EXCEPT !.calls = @ + 1, !.log = Append(@, Event(op, for, ok)), !.exc = ~ok]

Injected(c) == c.calls + 1 = c.failAt

\* pyodbc.connect
Connect(c, for) ==
    IF Injected(c) THEN Called(c, "connect", for, FALSE)
    ELSE [Called(c, "connect", for, TRUE) EXCEPT !.open = @ + 1, !.tx = c.db]

\* a connection in autocommit mode: a statement is published as it is executed
CursorExecuteAutocommit(c, stmt) ==
    LET r == RunSql(c.tx, stmt)
    IN  IF Injected(c) \/ ~r.ok THEN Called(c, "execute", stmt.kind, FALSE)
        ELSE [Called(c, "execute", stmt.kind, TRUE) EXCEPT !.tx = r.db, !.db = r.db]

\* cursor.execute
CursorExecute(c, stmt) ==
    LET r == RunSql(c.tx, stmt)
    IN  IF Injected(c) \/ ~r.ok THEN Called(c, "execute", stmt.kind, FALSE)
        ELSE [Called(c, "execute", stmt.kind, TRUE) EXCEPT !.tx = r.db]

\* cursor.fetchall / cursor.fetchone
CursorFetch(c, for) == Called(c, "fetch", for, ~Injected(c))

\* conn.commit
ConnCommit(c, for) ==
    IF Injected(c) THEN Called(c, "commit", for, FALSE)
    ELSE [Called(c, "commit", for, TRUE) EXCEPT !.db = c.tx]

\* conn.close
ConnClose(c, for) ==
    [c EXCEPT !.open = @ - 1, !.tx = c.db, !.log = Append(@, Event("close", for, TRUE))]

\* logger.error in the connection manager: the message, without the driver's text
ConnectionFailed == "Failed to create pyodbc connection"
QueryFailed == "Query execution failed"
SelfTestFailed == "pyodbc connection failed"
NoDrivers == "No SQL Server ODBC drivers found!"

\* except pyodbc.Error as e: logger.error(...); raise
Reraise(c, msg) == IF c.exc THEN [c EXCEPT !.errors = Append(@, msg)] ELSE c

\* SQLServerConnection.get_pyodbc_connection: logs and re-raises
get_pyodbc_connection(c, for) == Reraise(Connect(c, for), ConnectionFailed)

\* the try block of execute_query_pyodbc, the connection included
TryExecute(c, stmt) ==
    LET c1 == get_pyodbc_connection(c, stmt.kind)
    IN  IF c1.exc THEN c1
        ELSE LET c2 == CursorExecute(c1, stmt)
             IN  IF c2.exc THEN c2
                 ELSE IF IsSelect(stmt)
                      THEN LET c3 == CursorFetch(c2, stmt.kind)
                           IN  IF c3.exc THEN c3 ELSE ConnClose(c3, stmt.kind)
                      ELSE LET c3 == ConnCommit(c2, stmt.kind)
                           IN  IF c3.exc THEN c3 ELSE ConnClose(c3, stmt.kind)

\* SQLServerConnection.execute_query_pyodbc: the except clause takes every
\* pyodbc.Error of the try block, logs it as a failed query and re-raises; it
\* does not close the connection.
execute_query_pyodbc(c, stmt) == Reraise(TryExecute(c, stmt), QueryFailed)

\* the try block of test_pyodbc_connection, past the driver check
TrySelfTest(c) ==
    LET c1 == Connect(c, "version")
    IN  IF c1.exc THEN c1
        ELSE LET c2 == CursorExecute(c1, Stmt("version", NoRow))
             IN  IF c2.exc THEN c2
                 ELSE LET c3 == CursorFetch(c2, "version")
                      IN  IF c3.exc THEN c3 ELSE ConnClose(c3, "version")

\* SQLServerConnection.test_pyodbc_connection: False without connecting when
\* no driver is installed; pyodbc.Error is caught and gives False.
test_pyodbc_connection(c, drivers) ==
    IF ~drivers THEN [c EXCEPT !.exc = TRUE, !.errors = Append(@, NoDrivers)]
    ELSE Reraise(TrySelfTest(c), SelfTestFailed)

(***************************************************************************)
(* db/load_csv.py: the loader.                                             *)
(***************************************************************************)
create_table_if_not_exists(c) == execute_query_pyodbc(c, Stmt("create_table", NoRow))

RowAt(frame, i) ==
    Row(frame.col["name"][i], frame.col["description"][i], frame.col["price"][i],
        frame.col["category"][i], frame.col["stock_quantity"][i])

\* the rows of a mapped frame, as the insert statement takes them
MappedRows(frame) == [i \in 1..frame.nrows |-> RowAt(frame, i)]

RECURSIVE InsertRowsCommitEach(_, _, _)
\* an insert loop that commits every row
InsertRowsCommitEach(c, frame, i) ==
    IF i > frame.nrows THEN c
    ELSE LET c1 == CursorExecute(c, Stmt("insert", RowAt(frame, i)))
         IN  IF c1.exc THEN c1
             ELSE LET c2 == ConnCommit(c1, "insert")
                  IN  IF c2.exc THEN c2 ELSE InsertRowsCommitEach(c2, frame, i + 1)

RECURSIVE InsertRows(_, _, _)
\* for _, row in df.iterrows(): cursor.execute(insert_sql, ...)
InsertRows(c, frame, i) ==
    IF i > frame.nrows THEN c
    ELSE LET c1 == CursorExecute(c, Stmt("insert", RowAt(frame, i)))
         IN  IF c1.exc THEN c1 ELSE InsertRows(c1, frame, i + 1)

Loaded(ok, c, mapped) == [ret |-> ok, c |-> c, df |-> mapped]

\* load_csv_to_products: every exception is caught and gives False.
load_csv_to_products(raw, readable, c) ==
    IF ~readable THEN Loaded(FALSE, c, NotMapped)
    ELSE LET mapped == prepare_products_data(ReadCsv(raw))
         IN  IF mapped.status = "raised" THEN Loaded(FALSE, c, mapped)
             ELSE IF IsEmpty(mapped.frame) THEN Loaded(FALSE, c, mapped)
             ELSE LET c1 == create_table_if_not_exists(c)
                  IN  IF c1.exc THEN Loaded(FALSE, c1, mapped)
                      ELSE LET c2 == get_pyodbc_connection(c1, "insert")
                           IN  IF c2.exc THEN Loaded(FALSE, c2, mapped)
                               ELSE LET c3 == InsertRows(c2, mapped.frame, 1)
                                    IN  IF c3.exc THEN Loaded(FALSE, c3, mapped)
                                        ELSE LET c4 == ConnCommit(c3, "insert")
                                             IN  IF c4.exc THEN Loaded(FALSE, c4, mapped)
                                                 ELSE Loaded(TRUE, ConnClose(c4, "insert"), mapped)

\* a loop that stops at the first file that fails
LoopBreak(i, ok, total) == IF ok THEN i + 1 ELSE total

\* load_all_csv_files: the loop takes the next file whatever the last one gave.
LoopNext(i, ok, total) == i + 1

CountNext(count, ok) == IF ok THEN count + 1 ELSE count

LoadAllResult(count, total) == IF count = total THEN "True" ELSE "False"

(***************************************************************************)
(* db/init_schema.py: the schema initializer.                              *)
(***************************************************************************)
Stepped(ok, c) == [ok |-> ok, c |-> c]

create_products_table(c, drivers) ==
    LET t == test_pyodbc_connection(c, drivers)
    IN  IF t.exc THEN Stepped(FALSE, t)
        ELSE LET a == execute_query_pyodbc(t, Stmt("create_table", NoRow))
             IN  IF a.exc THEN Stepped(FALSE, a)
                 ELSE LET b == execute_query_pyodbc(a, Stmt("create_index", NoRow))
                      IN  Stepped(~b.exc, b)

create_sample_data(c) ==
    LET a == execute_query_pyodbc(c, Stmt("sample_data", NoRow))
    IN  Stepped(~a.exc, a)

\* verify_schema: an empty result is logged as a warning and gives False;
\* otherwise the first row is reported, and AVG(price) of no rows is NULL,
\* which the report's format of avg_price rejects.
verify_schema(c, empty) ==
    LET a == execute_query_pyodbc(c, Stmt("verify", NoRow))
    IN  IF a.exc THEN Stepped(FALSE, a)
        ELSE IF empty THEN Stepped(FALSE, a)
        ELSE Stepped(Len(a.db.rows) > 0, a)

\* a main that goes on after a step failed
MainContinue(step, ok) ==
    IF step = "create" THEN [pc |-> "seed", ret |-> "none"]
    ELSE IF step = "seed" THEN [pc |-> "verify", ret |-> "none"]
    ELSE [pc |-> "return", ret |-> IF ok THEN "True" ELSE "False"]

\* main: a step that fails returns False; the last one that passes, True.
MainNext(step, ok) ==
    IF ~ok THEN [pc |-> "return", ret |-> "False"]
    ELSE IF step = "create" THEN [pc |-> "seed", ret |-> "none"]
    ELSE IF step = "seed" THEN [pc |-> "verify", ret |-> "none"]
    ELSE [pc |-> "return", ret |-> "True"]

(***************************************************************************)
(* Inputs.                                                                 *)
(***************************************************************************)
Csv(header, rows) == [header |-> header, rows |-> rows]

NoCsv == Csv(<<>>, <<>>)

\* The files a data directory of the model may hold.
DataFiles ==
    { Csv(<<"product_name", "cost", "qty">>,
          << <<"Widget", "12.50", "abc">>, <<"", "3", "5">>,
             <<"Sample Product 2", "5", "12.7">> >>),
      Csv(<<"sku", "cost">>, << <<"A1", "5">>, <<"A2", "3">> >>),
      Csv(<<"qty", "name">>, << <<"5", "">>, <<"3">>, <<"12.7", "NA">> >>),
      Csv(<<"title", "stock">>, << <<"Gadget", "inf">> >>) }

\* get_csv_files: the paths of a directory of n files
Paths(n) == [i \in 1..n |-> i]

\* The tables given to the mapper alone: every table of these headers with up
\* to MaxRows rows of these cells (a row may be shorter than its header).
Headers ==
    { <<"name", "qty">>, <<"product_name", "name">>, <<"Name", "stock">>,
      <<"title", "cost">>, <<"qty", "stock">>, <<"sku", "product">>,
      <<"inventory", "name">> }

Cells == {"", "Widget", "5", "12.7", "inf"}

RowsOf(header) == UNION {[1..k -> Cells] : k \in 1..Len(header)}

IsTable(t) ==
    /\ t.header \in Headers
    /\ Len(t.rows) <= MaxRows
    /\ \A i \in 1..Len(t.rows) : t.rows[i] \in RowsOf(t.header)

\* The driver call made to fail (0: none) and the state of the machine: "ok",
\* "nodriver" (no ODBC driver installed), "unreadable" (read_csv raises),
\* "empty" (the driver gives no row for the query).
Fault(at, env) == [at |-> at, env |-> env]

NoFault == Fault(0, "ok")

DriverFaults == {Fault(at, "ok") : at \in 0..(MaxRows + 6)}

Hit(f, c) == f.at = 0 \/ c.calls >= f.at

Snapshot == [db |-> db, open |-> open]

(***************************************************************************)
(* The state machine.                                                      *)
(***************************************************************************)
Idle ==
    /\ db = EmptyDb
    /\ open = 0
    /\ mode = "idle"
    /\ pc = "return"
    /\ csv_files = <<>>
    /\ idx = 0
    /\ success_count = 0
    /\ ret = "none"
    /\ runs = 0
    /\ results = <<>>
    /\ fault = NoFault
    /\ pre = [db |-> EmptyDb, open |-> 0]
    /\ log = <<>>
    /\ errors = <<>>
    /\ start = EmptyDb
    /\ last = "none"

Init == Idle /\ csv = NoCsv /\ df = NotMapped

\* init_schema.main begins
StartInit ==
    /\ mode = "idle" /\ runs < MaxRuns
    /\ mode' = "init" /\ pc' = "create" /\ ret' = "none" /\ runs' = runs + 1
    /\ csv_files' = <<>> /\ idx' = 0 /\ success_count' = 0 /\ results' = <<>>
    /\ csv' = NoCsv /\ df' = NotMapped
    /\ fault' = NoFault /\ pre' = Snapshot /\ log' = <<>> /\ last' = "start_init"
    /\ errors' = <<>> /\ start' = db
    /\ UNCHANGED <<db, open>>

InitStep(step, r, f) ==
    /\ Hit(f, r.c)
    /\ db' = r.c.db /\ open' = r.c.open
    /\ pc' = MainNext(step, r.ok).pc
    /\ ret' = MainNext(step, r.ok).ret
    /\ mode' = IF MainNext(step, r.ok).pc = "return" THEN "exit" ELSE "init"
    /\ fault' = f /\ pre' = Snapshot /\ log' = log \o r.c.log /\ last' = step
    /\ errors' = errors \o r.c.errors
    /\ UNCHANGED <<csv_files, idx, success_count, results, csv, df, runs, start>>

\* main: create_products_table()
CreateProductsTable ==
    /\ mode = "init" /\ pc = "create"
    /\ \E f \in DriverFaults \cup {Fault(0, "nodriver")} :
          InitStep("create", create_products_table(Ctx(db, open, f.at), f.env = "ok"), f)

\* main: create_sample_data()
CreateSampleData ==
    /\ mode = "init" /\ pc = "seed"
    /\ \E f \in DriverFaults : InitStep("seed", create_sample_data(Ctx(db, open, f.at)), f)

\* main: verify_schema()
VerifySchema ==
    /\ mode = "init" /\ pc = "verify"
    /\ \E f \in DriverFaults \cup {Fault(0, "empty")} :
          InitStep("verify", verify_schema(Ctx(db, open, f.at), f.env = "empty"), f)

\* load_all_csv_files begins: get_csv_files(); no file gives False at once
StartLoad ==
    /\ mode = "idle" /\ runs < MaxRuns
    /\ \E n \in 0..MaxFiles :
          /\ csv_files' = Paths(n)
          /\ IF n = 0
             THEN mode' = "exit" /\ pc' = "return" /\ ret' = "False"
             ELSE mode' = "load" /\ pc' = "loop" /\ ret' = "none"
    /\ runs' = runs + 1 /\ idx' = 0 /\ success_count' = 0 /\ results' = <<>>
    /\ csv' = NoCsv /\ df' = NotMapped
    /\ fault' = NoFault /\ pre' = Snapshot /\ log' = <<>> /\ last' = "start_load"
    /\ errors' = <<>> /\ start' = db
    /\ UNCHANGED <<db, open>>

\* if load_csv_to_products(csv_file): success_count += 1
LoadStep(raw, r, f) ==
    /\ Hit(f, r.c)
    /\ db' = r.c.db /\ open' = r.c.open
    /\ idx' = LoopNext(idx, r.ret, Len(csv_files))
    /\ success_count' = CountNext(success_count, r.ret)
    /\ results' = Append(results, [file |-> csv_files[idx + 1], ok |-> r.ret,
                                   loaded |-> IF r.ret THEN MappedRows(r.df.frame)
                                              ELSE <<>>])
    /\ csv' = raw /\ df' = r.df
    /\ fault' = f /\ pre' = Snapshot /\ log' = r.c.log /\ last' = "file"
    /\ errors' = r.c.errors
    /\ UNCHANGED <<mode, pc, csv_files, ret, runs, start>>

\* load_all_csv_files: one turn of the loop over csv_files
LoadNextFile ==
    /\ mode = "load" /\ pc = "loop" /\ idx < Len(csv_files)
    /\ \E raw \in DataFiles : \E f \in DriverFaults \cup {Fault(0, "unreadable")} :
          LoadStep(raw, load_csv_to_products(raw, f.env = "ok", Ctx(db, open, f.at)), f)

\* load_all_csv_files: the summary and the return value
FinishLoad ==
    /\ mode = "load" /\ pc = "loop" /\ idx >= Len(csv_files)
    /\ mode' = "exit" /\ pc' = "return"
    /\ ret' = LoadAllResult(success_count, Len(csv_files))
    /\ last' = "finish"
    /\ UNCHANGED <<db, open, csv_files, idx, success_count, runs, csv, df, results,
                   fault, pre, log, errors, start>>

\* sys.exit(0 if success else 1): the process ends, the database stays
Exit ==
    /\ mode = "exit"
    /\ mode' = "idle" /\ pc' = "return" /\ ret' = "none"
    /\ csv_files' = <<>> /\ idx' = 0 /\ success_count' = 0 /\ results' = <<>>
    /\ csv' = NoCsv /\ df' = NotMapped
    /\ fault' = NoFault /\ pre' = Snapshot /\ log' = <<>> /\ last' = "none"
    /\ errors' = <<>> /\ start' = EmptyDb
    /\ UNCHANGED <<db, open, runs>>

Next ==
    \/ StartInit
    \/ CreateProductsTable
    \/ CreateSampleData
    \/ VerifySchema
    \/ StartLoad
    \/ LoadNextFile
    \/ FinishLoad
    \/ Exit

Spec == Init /\ [][Next]_vars

(***************************************************************************)
(* The mapper alone, on every table of the headers and cells above.        *)
(***************************************************************************)
MapperInit ==
    /\ Idle
    /\ \E h \in Headers : \E n \in 0..MaxRows : \E rows \in [1..n -> RowsOf(h)] :
          csv = Csv(h, rows)
    /\ df = NotMapped

\* df = pd.read_csv(csv_file); df = prepare_products_data(df)
Prepare ==
    /\ last = "none"
    /\ df' = prepare_products_data(ReadCsv(csv))
    /\ last' = "prepare"
    /\ UNCHANGED <<db, open, mode, pc, csv_files, idx, success_count, ret, runs, csv,
                   results, fault, pre, log, errors, start>>

MapperNext == Prepare

MapperSpec == MapperInit /\ [][MapperNext]_vars

(***************************************************************************)
(* Properties of the directory run and of the schema initializer (Spec).   *)
(***************************************************************************)
Succeeded == {i \in 1..Len(results) : results[i].ok}

\* C1: in a directory run every file is taken exactly once, in order, whatever
\* the earlier files gave; success_count is the number of files for which
\* load_csv_to_products returned True; and the run returns True exactly when
\* every file did.
C1_DirectoryRun ==
    (mode = "load" \/ last = "finish") =>
        /\ Len(results) = idx
        /\ idx <= Len(csv_files)
        /\ \A i \in 1..Len(results) : results[i].file = csv_files[i]
        /\ success_count = Cardinality(Succeeded)
        /\ last = "finish" =>
              /\ idx = Len(csv_files)
              /\ (ret = "True") <=> (Succeeded = 1..Len(csv_files))
              /\ ret \in {"True", "False"}

\* A run of three files of which the first failed and the others were loaded:
\* 2/3, and the run returns False.
C1_Witness ==
    /\ last = "finish" /\ Len(csv_files) = 3
    /\ ~results[1].ok /\ results[2].ok /\ results[3].ok
    /\ success_count = 2 /\ ret = "False"

\* C2: a file whose mapped result is empty is reported as failed, and its turn
\* opens no connection, runs no statement, and leaves the database, the open
\* connections and the success count as they were.
C2_EmptyMapping ==
    (last = "file" /\ df.status = "ok" /\ df.frame.nrows = 0) =>
        /\ ~results[Len(results)].ok
        /\ log = <<>>
        /\ db = pre.db /\ open = pre.open
        /\ success_count = Cardinality(Succeeded \ {Len(results)})

\* A file without a name column, after a file of the same run was loaded.
C2_Witness ==
    /\ last = "file" /\ df.status = "ok" /\ df.frame.nrows = 0
    /\ csv.header = <<"sku", "cost">> /\ Len(csv.rows) > 0
    /\ Len(results) = 2 /\ results[1].ok /\ Len(db.rows) > 0

\* C3: no connection is left open when an operation has ended.
C3_ConnectionsClosed == open = 0

\* C4: seeding leaves the number of rows of a sample name unchanged when a row
\* of that name existed before.
C4_SeedOnlyAbsent ==
    last = "seed" =>
        \A name \in SampleNames :
            CountNamed(pre.db.rows, name) > 0 =>
                CountNamed(db.rows, name) = CountNamed(pre.db.rows, name)

\* C5: create_products_table with no failure gives one table and one index,
\* and where both already exist it succeeds and changes nothing.
C5_InitIdempotent ==
    /\ db.tables <= 1 /\ db.indexes <= 1
    /\ (last = "create" /\ fault = NoFault) =>
          /\ pc = "seed"
          /\ db.tables = 1 /\ db.indexes = 1
          /\ (pre.db.tables = 1 /\ pre.db.indexes = 1) => db = pre.db

\* A second create_products_table, on a database that holds rows.
C5_Witness ==
    /\ last = "create" /\ fault = NoFault /\ runs = 2
    /\ pre.db.tables = 1 /\ pre.db.indexes = 1 /\ Len(pre.db.rows) > 0
    /\ db = pre.db

StepNo(for) ==
    CASE for = "version" -> 1
      [] for = "create_table" -> 2
      [] for = "create_index" -> 3
      [] for = "sample_data" -> 4
      [] OTHER -> 5

Committed(for) == \E i \in 1..Len(log) : log[i] = Event("commit", for, TRUE)

\* C6: in init_schema.main a driver call that failed is the last call of the
\* run and the run returns False; the steps run in order; what a completed
\* step committed stays.
C6_AbortOnFailure ==
    (mode \in {"init", "exit"} /\ last \in {"create", "seed", "verify"}) =>
        /\ \A i \in 1..Len(log) :
              ~log[i].ok => (i = Len(log) /\ mode = "exit" /\ ret = "False")
        /\ \A i, j \in 1..Len(log) : i <= j => StepNo(log[i].for) <= StepNo(log[j].for)
        /\ fault.env = "nodriver" => (log = <<>> /\ mode = "exit" /\ ret = "False")
        /\ ret = "True" => (last = "verify" /\ \A i \in 1..Len(log) : log[i].ok)
        /\ mode = "exit" => ret \in {"True", "False"}
        /\ Committed("create_table") => db.tables = 1
        /\ Committed("create_index") => db.indexes = 1
        /\ Committed("sample_data") => CountNamed(db.rows, Str("Sample Product 1")) > 0

\* Seeding failed after the table and the index were committed.
C6_Witness ==
    /\ mode = "exit" /\ last = "seed" /\ ret = "False"
    /\ Committed("create_table") /\ Committed("create_index")
    /\ ~log[Len(log)].ok /\ log[Len(log)].for = "sample_data"
    /\ db.tables = 1 /\ db.indexes = 1

HasName(row) == row.name.k = "str" /\ row.name.s # ""

\* C7: every row of products, and every row the mapper hands to the insert
\* loop, has a name that is a non-empty string.
C7_NamesNonEmpty ==
    /\ \A i \in 1..Len(db.rows) : HasName(db.rows[i])
    /\ df.status = "ok" => \A i \in 1..df.frame.nrows : HasName(RowAt(df.frame, i))

\* A file with an empty name cell was loaded: its other rows are committed,
\* among them Widget with price 12.50 and stock 0.
C7_Witness ==
    /\ last = "file" /\ results[Len(results)].ok
    /\ csv.header[1] = "product_name"
    /\ \E r \in 1..Len(csv.rows) : csv.rows[r][1] = ""
    /\ Len(db.rows) = Len(pre.db.rows) + 2
    /\ db.rows[Len(pre.db.rows) + 1] =
           Row(Str("Widget"), Str(""), Float(1250), Str(""), Int64(0))

\* C11: an empty result of the aggregate query does not make verify_schema
\* fail: the run that got it does not return False (exit code 1).
C11_EmptyIsWarning ==
    (last = "verify" /\ fault.env = "empty") => ret # "False"

\* The statements that go through execute_query_pyodbc.
ExecutedBy == {"create_table", "create_index", "sample_data", "verify"}

FailedAt(op) ==
    \E i \in 1..Len(log) : log[i].op = op /\ ~log[i].ok /\ log[i].for \in ExecutedBy

\* C12: execute_query_pyodbc reports a connection that could not be opened as
\* a connection failure only, and a statement that failed on an open
\* connection as a query failure only.
C12_ErrorsDistinct ==
    /\ FailedAt("connect") => errors = <<ConnectionFailed>>
    /\ FailedAt("execute") => errors = <<QueryFailed>>

\* The driver calls of a file of n mapped rows that is loaded.
FileSteps(n) ==
    << Event("connect", "create_table", TRUE), Event("execute", "create_table", TRUE),
       Event("commit", "create_table", TRUE), Event("close", "create_table", TRUE),
       Event("connect", "insert", TRUE) >>
    \o [i \in 1..n |-> Event("execute", "insert", TRUE)]
    \o << Event("commit", "insert", TRUE), Event("close", "insert", TRUE) >>

\* C13: for a file with a non-empty mapped result the driver calls are, in
\* this order: the ensure-table statement on a connection of its own,
\* executed, committed and closed; a second connection; one insert per
\* mapped row; one commit after the last insert; the close.  A call that
\* fails is the last one, and the file is reported loaded exactly when all
\* calls were made.  A loaded file's rows are then in products in the mapped
\* order, in one block after the rows that were there.
C13_LoadOrder ==
    (last = "file" /\ df.status = "ok" /\ df.frame.nrows > 0) =>
        /\ Len(log) <= Len(FileSteps(df.frame.nrows))
        /\ \A i \in 1..Len(log) :
              \/ log[i] = FileSteps(df.frame.nrows)[i]
              \/ i = Len(log) /\ log[i] = [FileSteps(df.frame.nrows)[i] EXCEPT !.ok = FALSE]
        /\ results[Len(results)].ok <=> log = FileSteps(df.frame.nrows)
        /\ results[Len(results)].ok => db.rows = pre.db.rows \o MappedRows(df.frame)

\* The second file of a run, of two mapped rows, loaded after the first was.
C13_Witness ==
    /\ last = "file" /\ df.status = "ok" /\ df.frame.nrows = 2
    /\ Len(results) = 2 /\ results[1].ok /\ results[2].ok
    /\ log = FileSteps(2)
    /\ Len(pre.db.rows) = 2 /\ Len(db.rows) = 4
    /\ db.rows[3].name = Str("Widget") /\ db.rows[4].name = Str("Sample Product 2")

RECURSIVE Added(_)
\* the mapped rows of the first i files of the run that were reported loaded
Added(i) == IF i = 0 THEN <<>> ELSE Added(i - 1) \o results[i].loaded

\* C14: a file that is reported failed leaves the rows of products as they
\* were, a file that is reported loaded adds exactly its mapped rows, and
\* during and after a directory run the rows added since its start are the
\* mapped rows of the files reported loaded.
C14_AllOrNothing ==
    /\ last = "file" =>
          db.rows = pre.db.rows \o (IF results[Len(results)].ok
                                    THEN MappedRows(df.frame) ELSE <<>>)
    /\ (mode = "load" \/ last = "finish") => db.rows = start.rows \o Added(Len(results))

\* A run ended in which a file was loaded and the next one failed at its
\* second insert, the first having been executed.
C14_Witness ==
    /\ last = "finish" /\ Len(results) = 2
    /\ results[1].ok /\ ~results[2].ok
    /\ Len(log) = 7 /\ log[6] = Event("execute", "insert", TRUE)
    /\ log[7] = Event("execute", "insert", FALSE)
    /\ df.status = "ok" /\ df.frame.nrows = 2
    /\ Len(results[1].loaded) = 2 /\ db.rows = start.rows \o results[1].loaded

(***************************************************************************)
(* Properties of the mapper (MapperSpec).                                  *)
(***************************************************************************)
Matched(target) ==
    {j \in 1..Len(column_mapping[target]) : column_mapping[target][j] \in Range(csv.header)}

Chosen(target) ==
    column_mapping[target][CHOOSE j \in Matched(target) : \A q \in Matched(target) : j <= q]

RawText(r, c) ==
    LET j == ColumnPos(csv.header, c)
    IN  IF j > Len(csv.rows[r]) THEN "" ELSE csv.rows[r][j]

NamedRows ==
    IF Matched("name") = {} THEN {}
    ELSE {r \in 1..Len(csv.rows) : RawText(r, Chosen("name")) # ""}

Survivor(i) == CHOOSE r \in NamedRows : Cardinality({q \in NamedRows : q <= r}) = i

Expected(target, r) ==
    IF Matched(target) = {}
    THEN CASE target = "price" -> Float(0)
           [] target = "stock_quantity" -> Int64(0)
           [] OTHER -> Str("")
    ELSE LET text == RawText(r, Chosen(target))
             v == IF text = "" THEN NaN ELSE Str(text)
         IN  CASE target = "price" -> CleanPrice(v)
               [] target = "stock_quantity" -> CleanStock(v)
               [] OTHER -> v

\* C8: in every surviving row each target field holds the value (coerced, for
\* price and stock_quantity) of the first synonym of its list that is a column
\* of the input, and its default where no synonym is a column.
C8_FirstSynonym ==
    (last = "prepare" /\ df.status = "ok" /\ df.frame.nrows > 0) =>
        /\ df.frame.nrows = Cardinality(NamedRows)
        /\ \A i \in 1..df.frame.nrows :
              \A j \in 1..Len(TargetCols) :
                  df.frame.col[TargetCols[j]][i] = Expected(TargetCols[j], Survivor(i))

\* Both product_name and name are columns, in that order, with different
\* values: name is taken; no price column: the default.
C8_Witness ==
    /\ last = "prepare" /\ df.status = "ok"
    /\ csv.header = <<"product_name", "name">>
    /\ df.frame.nrows = 1
    /\ csv.rows[1] = <<"5", "Widget">>
    /\ df.frame.col["name"][1] = Str("Widget")
    /\ df.frame.col["price"][1] = Float(0)

\* The texts that parse as an integer, among the cells of the model.
IntegerTexts == ("5" :> 5) @@ ("3" :> 3)

\* C9: the mapper does not fail on a stock column, and the mapped quantity is
\* the cell's integer, or 0 for a cell that does not parse as an integer.
C9_StockCoercion ==
    (last = "prepare" /\ Matched("stock_quantity") # {}) =>
        /\ df.status = "ok"
        /\ df.frame.nrows = Cardinality(NamedRows) =>
              \A i \in 1..df.frame.nrows :
                  LET text == RawText(Survivor(i), Chosen("stock_quantity"))
                  IN  df.frame.col["stock_quantity"][i] =
                          Int64(IF text \in DOMAIN IntegerTexts THEN IntegerTexts[text] ELSE 0)

\* C10: with a name column the mapper returns the rows whose name is present,
\* all of them and in input order.
C10_RecordCount ==
    (last = "prepare" /\ Matched("name") # {}) =>
        /\ df.status = "ok"
        /\ df.frame.nrows = Cardinality(NamedRows)
        /\ \A i \in 1..df.frame.nrows :
              df.frame.col["name"][i] = Str(RawText(Survivor(i), Chosen("name")))

====
